---- MODULE Spec2Model ----
(***************************************************************************)
(* Model of src/make_our_better/server.py: the experience log              *)
(* (experience.jsonl), the persisted inverted index                        *)
(* (experience-index.json) and the three handlers record_experience,       *)
(* search_experience and vote_experience working on them.                  *)
(*                                                                         *)
(* A text is a sequence of one-character strings; Python's None is the     *)
(* value None.  A line of the log is either BadLine (a line json.loads     *)
(* rejects) or the entry json.loads returns for it.  An id is a positive   *)
(* number; NoId stands for an absent or empty id.                          *)
(***************************************************************************)
EXTENDS Integers, Sequences, FiniteSets, TLC

VARIABLES fileExists,   \* EXPERIENCE_FILE.exists()
          store,        \* the lines of EXPERIENCE_FILE, in file order
          indexFile,    \* the mapping held by INDEX_FILE ({} when missing)
          uuid,         \* the value the next uuid.uuid4() call returns
          clock,        \* the value the next datetime.now() call returns
          req,          \* the request handled last
          resp,         \* what the handler returned (or that it raised)
          inflight      \* the handler tasks the event loop holds

vars == <<fileExists, store, indexFile, uuid, clock, req, resp, inflight>>

\* no handler task is held
Idle == [vote |-> [pc |-> "idle"], record |-> [pc |-> "idle"], running |-> "none"]

----------------------------------------------------------------------------
(* Bounds of the model *)

MaxStore == 3        \* lines in the log (Spec)
MaxVotes == 2        \* votes cast in one run (Spec)
RTMaxStore == 6      \* lines in the log (SpecRT)
RTMaxVotes == 1      \* votes cast in one run (SpecRT)
MaxLogLen == 3       \* lines of the log found on disk (SpecLog)
LogMaxVotes == 3     \* votes held by the log (SpecLog)
MaxTextLen == 6      \* characters of a tokenized text (SpecTok)
MaxFieldLen == 3     \* characters of a concatenated field (SpecTok)

(* Program constants *)

DefaultLimit == 5    \* args.get("limit", 5)
MinTokenLen == 2     \* len(t) >= 2

----------------------------------------------------------------------------
(* Texts *)

None == <<"None">>
NoId == 0
BadLine == [bad |-> TRUE]

Range(s) == {s[i] : i \in 1..Len(s)}
InSeq(x, s) == \E i \in 1..Len(s) : s[i] = x

\* str.lower()
lower(text) ==
    [i \in 1..Len(text) |->
        IF text[i] = "A" THEN "a" ELSE IF text[i] = "B" THEN "b" ELSE text[i]]

\* the character class [\w\u4e00-\u9fff]
IsWordChar(c) == c \in {"a", "b", "A", "B", "_"}

\* re.findall(r'[\w\u4e00-\u9fff]+', text): the maximal runs, left to right
RECURSIVE findall(_, _, _)
findall(text, i, run) ==
    IF i > Len(text)
    THEN IF run = <<>> THEN <<>> ELSE <<run>>
    ELSE IF IsWordChar(text[i])
         THEN findall(text, i + 1, Append(run, text[i]))
         ELSE (IF run = <<>> THEN <<>> ELSE <<run>>) \o findall(text, i + 1, <<>>)

\* the text not lowercased before the runs are taken
tokenize_NoLower(text) ==
    {t \in Range(findall(text, 1, <<>>)) : Len(t) >= MinTokenLen}

tokenize(text) ==
    {t \in Range(findall(lower(text), 1, <<>>)) : Len(t) >= MinTokenLen}

\* " ".join(parts)
RECURSIVE join(_)
join(parts) ==
    IF parts = <<>> THEN <<>>
    ELSE IF Len(parts) = 1 THEN parts[1]
    ELSE parts[1] \o <<" ">> \o join(Tail(parts))

\* " ".join raises TypeError when an item is None
JoinRaises(parts) == InSeq(None, parts)

\* needle in hay
Contains(needle, hay) ==
    \E i \in 0..(Len(hay) - Len(needle)) :
        \A j \in 1..Len(needle) : hay[i + j] = needle[j]

----------------------------------------------------------------------------
(* The log *)

IsEntry(line) == line # BadLine

\* the loop left at the first line that does not parse
read_all_experiences_StopAtBad ==
    IF fileExists
    THEN SubSeq(store, 1,
             CHOOSE n \in 0..Len(store) :
                 /\ \A i \in 1..n : store[i] # BadLine
                 /\ n < Len(store) => store[n + 1] = BadLine)
    ELSE <<>>

read_all_experiences == IF fileExists THEN SelectSeq(store, IsEntry) ELSE <<>>

\* the last entry left out of the rewritten file
write_all_experiences_DropLast(experiences) ==
    SubSeq(experiences, 1, Len(experiences) - 1)

\* the file after write_all_experiences(experiences)
write_all_experiences(experiences) == experiences

\* the title left out of the indexed text
SearchFields_NoTitle(entry) ==
    <<entry.problem, entry.solution, entry.keywords, entry.context>>

SearchFields(entry) ==
    <<entry.title, entry.problem, entry.solution, entry.keywords, entry.context>>

Indexed(entries) == SelectSeq(entries, LAMBDA e : e.id # NoId)

\* lines 78-82 and 251-255: add entry_id under every token, once
AddToIndex(index, entry_id, tokens) ==
    [t \in (DOMAIN index) \cup tokens |->
        IF t \notin tokens THEN index[t]
        ELSE IF t \notin DOMAIN index THEN <<entry_id>>
        ELSE IF InSeq(entry_id, index[t]) THEN index[t]
        ELSE Append(index[t], entry_id)]

RECURSIVE IndexOf(_)
IndexOf(entries) ==
    IF entries = <<>> THEN <<>>
    ELSE LET n == Len(entries)
             e == entries[n]
         IN  AddToIndex(IndexOf(SubSeq(entries, 1, n - 1)), e.id,
                        tokenize(join(SearchFields(e))))

\* build_index() raises when an entry with an id has a None text field
build_index_raises ==
    \E e \in Range(Indexed(read_all_experiences)) : JoinRaises(SearchFields(e))

\* the persisted index served instead of one rebuilt from the log
build_index_FromFile == indexFile

build_index == IndexOf(Indexed(read_all_experiences))

\* the persisted index not read back: the update starts from an empty index
load_index_Empty == <<>>

load_index == indexFile

save_index(index) == index

----------------------------------------------------------------------------
(* Inputs *)

\* arguments of record_experience; a missing required field reads as None
RecordArgs ==
    { [title |-> <<"a", "b">>, problem |-> <<"b">>, solution |-> <<"a">>,
       keywords |-> <<>>, context |-> <<>>],
      [title |-> <<"A", "b", " ", "a">>, problem |-> <<"b">>, solution |-> <<"a">>,
       keywords |-> <<>>, context |-> <<"b", "a">>],
      [title |-> <<"a">>, problem |-> <<"b">>, solution |-> <<"a">>,
       keywords |-> <<>>, context |-> <<>>],
      [title |-> None, problem |-> <<"b">>, solution |-> <<"a">>,
       keywords |-> <<>>, context |-> <<>>] }

RTRecordArgs ==
    { [title |-> <<"a", "b">>, problem |-> <<"b">>, solution |-> <<"a">>,
       keywords |-> <<>>, context |-> <<>>],
      [title |-> <<"B", "a", " ", "a">>, problem |-> <<"b">>, solution |-> <<"a">>,
       keywords |-> <<>>, context |-> <<>>] }

RTQueries == { <<"a", "b">>, <<"B", "a">>, <<"a">> }

RTVoteIds == {1, 2}

LegacyEntry ==
    [id |-> NoId, timestamp |-> 0, title |-> <<"a", "b">>, problem |-> <<"b">>,
     solution |-> <<"a">>, keywords |-> <<>>, context |-> <<>>, votes |-> 0]

OldEntry(t, v) ==
    [id |-> 9, timestamp |-> 0, title |-> t, problem |-> <<"b">>,
     solution |-> <<"a">>, keywords |-> <<>>, context |-> <<>>, votes |-> v]

\* logs found on disk at start-up: none, or one written by earlier runs
\* and other tools
InitialLogs ==
    { <<LegacyEntry>>,
      <<OldEntry(<<"a", "b">>, 0), BadLine>>,
      <<OldEntry(<<"a", "b">>, 1), OldEntry(<<"b", "a">>, 0)>> }

VoteIds == {NoId, 1, 2, 9}

Queries == { <<>>, <<"a">>, <<"a", "b">>, <<"A", "b">>, <<"b", "a", " ", "a", "b">> }

Limits == {0 - 1, 0, 2}

\* queries sent with an explicit limit
LimitedQueries == { <<"a", "b">>, <<"b", "a", " ", "a", "b">> }

SearchArgs ==
    {[query |-> q] : q \in Queries}
        \cup {[query |-> q, limit |-> n] : q \in LimitedQueries, n \in Limits}

----------------------------------------------------------------------------
(* What a handler hands back *)

Results(results) == [kind |-> "results", results |-> results]
Raised(error) == [kind |-> "raised", error |-> error]

----------------------------------------------------------------------------
(* record_experience *)

\* the entry created with one vote
NewEntry_OneVote(args) ==
    [id |-> uuid, timestamp |-> clock, title |-> args.title,
     problem |-> args.problem, solution |-> args.solution,
     keywords |-> args.keywords, context |-> args.context, votes |-> 1]

NewEntry(args) ==
    [id |-> uuid, timestamp |-> clock, title |-> args.title,
     problem |-> args.problem, solution |-> args.solution,
     keywords |-> args.keywords, context |-> args.context, votes |-> 0]

record_experience(args) ==
    LET entry == NewEntry(args)
        parts == SearchFields(entry)
    IN  /\ fileExists' = TRUE
        /\ store' = Append(store, entry)
        /\ uuid' = uuid + 1
        /\ clock' = clock + 1
        /\ req' = [op |-> "record_experience", args |-> args]
        /\ IF JoinRaises(parts)
           THEN /\ indexFile' = indexFile
                /\ resp' = Raised("TypeError")
           ELSE /\ indexFile' = save_index(
                        AddToIndex(load_index, entry.id, tokenize(join(parts))))
                /\ resp' = [kind |-> "recorded", title |-> args.title]

----------------------------------------------------------------------------
(* vote_experience *)

SumVotes(entries) ==
    LET RECURSIVE Sum(_)
        Sum(n) == IF n = 0 THEN 0 ELSE entries[n].votes + Sum(n - 1)
    IN  Sum(Len(entries))

\* the voted entry stamped with the time of the vote
Bump_Restamp(entries, entry_id) ==
    [i \in 1..Len(entries) |->
        IF entries[i].id = entry_id
        THEN [entries[i] EXCEPT !.votes = @ + 1, !.timestamp = clock]
        ELSE entries[i]]

\* the scan stops at the first entry carrying the id
Bump_OnlyFirst(entries, entry_id) ==
    [i \in 1..Len(entries) |->
        IF entries[i].id = entry_id
           /\ \A j \in 1..(i - 1) : entries[j].id # entry_id
        THEN [entries[i] EXCEPT !.votes = @ + 1]
        ELSE entries[i]]

Bump(entries, entry_id) ==
    [i \in 1..Len(entries) |->
        IF entries[i].id = entry_id
        THEN [entries[i] EXCEPT !.votes = @ + 1]
        ELSE entries[i]]

\* the log rewritten whether or not a vote was cast
Rewrites_Always(voted) == TRUE

\* lines 381-382: the log is rewritten only when a vote was cast
Rewrites(voted) == voted

vote_experience(entry_id) ==
    LET experiences == read_all_experiences
        voted == \E e \in Range(experiences) : e.id = entry_id
    IN  /\ req' = [op |-> "vote_experience", id |-> entry_id]
        /\ UNCHANGED <<indexFile, uuid, clock>>
        /\ IF entry_id = NoId
           THEN /\ resp' = [kind |-> "id_required"]
                /\ UNCHANGED <<fileExists, store>>
           ELSE /\ IF Rewrites(voted)
                   THEN /\ store' = write_all_experiences(Bump(experiences, entry_id))
                        /\ fileExists' = TRUE
                   ELSE UNCHANGED <<fileExists, store>>
                /\ resp' = IF voted THEN [kind |-> "voted", id |-> entry_id]
                                    ELSE [kind |-> "not_found", id |-> entry_id]

----------------------------------------------------------------------------
(* search_experience *)

Min(S) == CHOOSE x \in S : \A y \in S : x <= y
Max(S) == CHOOSE x \in S : \A y \in S : x >= y

\* tuple comparison: a < b for two-item tuples of numbers
KeyLess(a, b) == a[1] < b[1] \/ (a[1] = b[1] /\ a[2] < b[2])

\* sorted(s, key=...): stable; keys[i] is the key of s[i]
sorted(s, keys) ==
    LET Ins(k, t) ==
            LET after == {i \in 1..Len(t) : KeyLess(keys[k], keys[t[i]])}
                at == IF after = {} THEN Len(t) + 1 ELSE Min(after)
            IN  SubSeq(t, 1, at - 1) \o <<k>> \o SubSeq(t, at, Len(t))
        RECURSIVE Go(_)
        Go(n) == IF n = 0 THEN <<>> ELSE Ins(n, Go(n - 1))
        order == Go(Len(s))
    IN  [i \in 1..Len(s) |-> s[order[i]]]

\* the slice taken one item too long
Slice_OneMore(s, limit) ==
    IF limit >= 0
    THEN SubSeq(s, 1, IF limit + 1 < Len(s) THEN limit + 1 ELSE Len(s))
    ELSE SubSeq(s, 1, IF Len(s) + limit > 0 THEN Len(s) + limit ELSE 0)

\* s[:limit]
Slice(s, limit) ==
    IF limit >= 0
    THEN SubSeq(s, 1, IF limit < Len(s) THEN limit ELSE Len(s))
    ELSE SubSeq(s, 1, IF Len(s) + limit > 0 THEN Len(s) + limit ELSE 0)

\* the orders in which a set of tokens can be iterated
Orders(tokens) ==
    {o \in [1..Cardinality(tokens) -> tokens] : Range(o) = tokens}

\* an id already scored is not counted again
Hit_NoCount(scores, entry_id) ==
    IF \E i \in 1..Len(scores) : scores[i].id = entry_id
    THEN scores
    ELSE Append(scores, [id |-> entry_id, score |-> 1])

\* entry_scores[entry_id] = entry_scores.get(entry_id, 0) + 1
Hit(scores, entry_id) ==
    IF \E i \in 1..Len(scores) : scores[i].id = entry_id
    THEN [i \in 1..Len(scores) |->
            IF scores[i].id = entry_id
            THEN [scores[i] EXCEPT !.score = @ + 1]
            ELSE scores[i]]
    ELSE Append(scores, [id |-> entry_id, score |-> 1])

RECURSIVE Hits(_, _)
Hits(scores, ids) ==
    IF ids = <<>> THEN scores ELSE Hits(Hit(scores, Head(ids)), Tail(ids))

\* lines 287-291: the items of entry_scores, in insertion order
RECURSIVE entry_scores(_, _)
entry_scores(index, order) ==
    IF order = <<>> THEN <<>>
    ELSE LET n == Len(order)
             before == entry_scores(index, SubSeq(order, 1, n - 1))
         IN  IF order[n] \in DOMAIN index
             THEN Hits(before, index[order[n]])
             ELSE before

\* lines 303-309: the last entry carrying the id wins
id_to_entry(entries, entry_id) ==
    entries[Max({i \in 1..Len(entries) : entries[i].id = entry_id})]

HasEntry(entries, entry_id) ==
    entry_id # NoId /\ \E i \in 1..Len(entries) : entries[i].id = entry_id

votes_map(entries, entry_id) ==
    IF HasEntry(entries, entry_id) THEN id_to_entry(entries, entry_id).votes ELSE 0

\* the key with votes first: (-votes, -score)
RankKey_VotesFirst(entries, x) ==
    <<0 - votes_map(entries, x.id), 0 - x.score>>

\* key=lambda x: (-x[1], -votes_map.get(x[0], 0))
RankKey(entries, x) ==
    <<0 - x.score, 0 - votes_map(entries, x.id)>>

WithScore(entry, score) ==
    [id |-> entry.id, timestamp |-> entry.timestamp, title |-> entry.title,
     problem |-> entry.problem, solution |-> entry.solution,
     keywords |-> entry.keywords, context |-> entry.context,
     votes |-> entry.votes, score |-> score]

\* lines 315-320
Materialize(entries, top) ==
    LET kept == SelectSeq(top, LAMBDA x : HasEntry(entries, x.id))
    IN  [i \in 1..Len(kept) |-> WithScore(id_to_entry(entries, kept[i].id), kept[i].score)]

\* the title left out of the scanned text
LinearFields_NoTitle(entry) ==
    <<entry.problem, entry.solution, entry.keywords>>

LinearFields(entry) ==
    <<entry.title, entry.problem, entry.solution, entry.keywords>>

linear_search(query, limit) ==
    LET entries == SelectSeq(store, IsEntry)
        query_lower == lower(query)
        results == SelectSeq(entries,
                       LAMBDA e : Contains(query_lower, lower(join(LinearFields(e)))))
        byVotes == sorted(results,
                       [i \in 1..Len(results) |-> <<0 - results[i].votes, 0>>])
    IN  IF ~fileExists THEN Raised("FileNotFoundError")
        ELSE IF \E e \in Range(entries) : JoinRaises(LinearFields(e))
        THEN Raised("TypeError")
        ELSE Results(Slice(byVotes, limit))

\* the check for a missing log left out
StoreMissing_Never == FALSE

\* line 266: if not EXPERIENCE_FILE.exists()
StoreMissing == ~fileExists

\* the check for an empty token set left out
NoQueryTokens_Never(query) == FALSE

\* line 274: if not query_tokens
NoQueryTokens(query) == tokenize(query) = {}

\* the value search_experience returns when its query tokens are iterated in
\* the given order
search_experience(args, order) ==
    LET query == args.query
        limit == IF "limit" \in DOMAIN args THEN args.limit ELSE DefaultLimit
        index == build_index
        scores == entry_scores(index, order)
        all_experiences == read_all_experiences
        sorted_entries == sorted(scores,
                              [i \in 1..Len(scores) |-> RankKey(all_experiences, scores[i])])
        top_entries == Slice(sorted_entries, limit)
    IN  IF StoreMissing THEN Results(<<>>)
        ELSE IF NoQueryTokens(query) THEN Results(<<>>)
        ELSE IF build_index_raises THEN Raised("TypeError")
        ELSE IF DOMAIN index = {} THEN linear_search(query, limit)
        ELSE IF scores = <<>> THEN Results(<<>>)
        ELSE Results(Materialize(all_experiences, top_entries))

----------------------------------------------------------------------------
(* The specification *)

Init ==
    /\ \/ fileExists = FALSE /\ store = <<>>
       \/ fileExists = TRUE /\ store \in InitialLogs
    /\ indexFile = <<>>
    /\ uuid = 1
    /\ clock = 1
    /\ req = [op |-> "start"]
    /\ resp = [kind |-> "none"]
    /\ inflight = Idle

RecordExperience ==
    /\ Len(store) < MaxStore
    /\ \E args \in RecordArgs : record_experience(args)
    /\ UNCHANGED inflight

VoteExperience ==
    /\ SumVotes(read_all_experiences) < MaxVotes
    /\ \E entry_id \in VoteIds : vote_experience(entry_id)
    /\ UNCHANGED inflight

SearchStep(args) ==
    \E order \in Orders(tokenize(args.query)) :
        /\ req' = [op |-> "search_experience", args |-> args]
        /\ resp' = search_experience(args, order)
        /\ UNCHANGED <<fileExists, store, indexFile, uuid, clock, inflight>>

SearchExperience == \E args \in SearchArgs : SearchStep(args)

Next == RecordExperience \/ VoteExperience \/ SearchExperience

Spec == Init /\ [][Next]_vars

----------------------------------------------------------------------------
(* The round trip: a fresh installation, well-formed record_experience     *)
(* calls, searches with the default limit, and a log long enough for the   *)
(* default limit to cut the result list.                                    *)

InitRT ==
    /\ fileExists = FALSE
    /\ store = <<>>
    /\ indexFile = <<>>
    /\ uuid = 1
    /\ clock = 1
    /\ req = [op |-> "start"]
    /\ resp = [kind |-> "none"]
    /\ inflight = Idle

RTRecord ==
    /\ Len(store) < RTMaxStore
    /\ \E args \in RTRecordArgs : record_experience(args)
    /\ UNCHANGED inflight

RTVote ==
    /\ SumVotes(read_all_experiences) < RTMaxVotes
    /\ \E entry_id \in RTVoteIds : vote_experience(entry_id)
    /\ UNCHANGED inflight

RTSearch == \E q \in RTQueries : SearchStep([query |-> q])

NextRT == RTRecord \/ RTVote \/ RTSearch

SpecRT == InitRT /\ [][NextRT]_vars

----------------------------------------------------------------------------
(* A log of any lines: the log found on disk is any short sequence of      *)
(* malformed lines, entries without an id and entries with an id.          *)

VotedLegacyEntry ==
    [id |-> NoId, timestamp |-> 0, title |-> <<"A", "b">>, problem |-> <<"b">>,
     solution |-> <<"a">>, keywords |-> <<>>, context |-> <<>>, votes |-> 1]

LogLines ==
    { BadLine, LegacyEntry, VotedLegacyEntry,
      OldEntry(<<"a", "b">>, 0), OldEntry(<<"b", "a">>, 0) }

Logs == UNION {[1..n -> LogLines] : n \in 0..MaxLogLen}

LogSearchArgs ==
    {[query |-> q] : q \in { <<"a", "b">>, <<"b", "a">>, <<"a">> }}
        \cup {[query |-> <<"a", "b">>, limit |-> n] : n \in {1, 2}}

LogVoteIds == {1, 9}

InitLog ==
    /\ fileExists = TRUE
    /\ store \in Logs
    /\ indexFile = <<>>
    /\ uuid = 1
    /\ clock = 1
    /\ req = [op |-> "start"]
    /\ resp = [kind |-> "none"]
    /\ inflight = Idle

LogSearch == \E args \in LogSearchArgs : SearchStep(args)

LogVote ==
    /\ SumVotes(read_all_experiences) < LogMaxVotes
    /\ \E entry_id \in LogVoteIds : vote_experience(entry_id)
    /\ UNCHANGED inflight

NextLog == LogSearch \/ LogVote

SpecLog == InitLog /\ [][NextLog]_vars

----------------------------------------------------------------------------
(* The tokenizer alone: a text, or two fields joined by a space, is drawn  *)
(* at the start and tokenized.                                              *)

TokChars == {"a", "A", "b", " "}

Texts(n) == UNION {[1..k -> TokChars] : k \in 0..n}

InitTok ==
    /\ fileExists = FALSE
    /\ store = <<>>
    /\ indexFile = <<>>
    /\ uuid = 1
    /\ clock = 1
    /\ \/ \E text \in Texts(MaxTextLen) : req = [op |-> "tokenize", text |-> text]
       \/ \E f1, f2 \in Texts(MaxFieldLen) :
              req = [op |-> "tokenize_fields", fields |-> <<f1, f2>>]
    /\ resp = [kind |-> "none"]
    /\ inflight = Idle

Tokenize ==
    /\ req.op = "tokenize"
    /\ resp.kind = "none"
    /\ resp' = [kind |-> "tokens", tokens |-> tokenize(req.text)]
    /\ UNCHANGED <<fileExists, store, indexFile, uuid, clock, req, inflight>>

TokenizeFields ==
    /\ req.op = "tokenize_fields"
    /\ resp.kind = "none"
    /\ resp' = [kind |-> "tokens", tokens |-> tokenize(join(req.fields))]
    /\ UNCHANGED <<fileExists, store, indexFile, uuid, clock, req, inflight>>

NextTok == Tokenize \/ TokenizeFields

SpecTok == InitTok /\ [][NextTok]_vars

----------------------------------------------------------------------------
(* Two requests in flight: the server holds a vote_experience task and a   *)
(* record_experience task at once.  The event loop runs one task at a time *)
(* and changes task only where the running one awaits.                      *)

ConcMaxStore == 4    \* lines in the log (SpecConc)
ConcMaxVotes == 2    \* votes cast in one run (SpecConc)

ConcLogs ==
    { <<OldEntry(<<"a", "b">>, 0)>>,
      <<OldEntry(<<"a", "b">>, 0), BadLine>>,
      <<LegacyEntry, OldEntry(<<"b", "a">>, 1)>> }

\* vote_experience awaits between its read (line 373) and its write (line 382)
Yields_AfterRead == TRUE

\* lines 366-385 hold no await: the task is not left between line 373 and
\* line 382
Yields == FALSE

\* the event loop may run a step of task t
CanRun(t) == inflight.running \in {"none", t} \/ Yields

InitConc ==
    /\ fileExists = TRUE
    /\ store \in ConcLogs
    /\ indexFile = <<>>
    /\ uuid = 1
    /\ clock = 1
    /\ req = [op |-> "start"]
    /\ resp = [kind |-> "none"]
    /\ inflight = Idle

\* a vote for a stored id and a record arrive; both tasks are created
Submit ==
    /\ inflight = Idle
    /\ Len(store) < ConcMaxStore
    /\ SumVotes(read_all_experiences) < ConcMaxVotes
    /\ \E entry_id \in {e.id : e \in Range(read_all_experiences)} \ {NoId} :
       \E args \in RTRecordArgs :
          inflight' = [vote |-> [pc |-> "start", id |-> entry_id],
                       record |-> [pc |-> "start", args |-> args],
                       running |-> "none",
                       before |-> read_all_experiences]
    /\ UNCHANGED <<fileExists, store, indexFile, uuid, clock, req, resp>>

\* lines 368-374: the id is given, the log is read into experiences
VoteRead ==
    /\ inflight.vote.pc = "start"
    /\ CanRun("vote")
    /\ inflight' = [inflight EXCEPT
                       !.vote = [pc |-> "read", id |-> @.id,
                                 experiences |-> read_all_experiences],
                       !.running = "vote"]
    /\ UNCHANGED <<fileExists, store, indexFile, uuid, clock, req, resp>>

\* lines 376-385: the votes are raised in experiences, which is written back
VoteWrite ==
    /\ inflight.vote.pc = "read"
    /\ CanRun("vote")
    /\ LET entry_id == inflight.vote.id
           experiences == inflight.vote.experiences
           voted == \E e \in Range(experiences) : e.id = entry_id
       IN  /\ IF Rewrites(voted)
              THEN /\ store' = write_all_experiences(Bump(experiences, entry_id))
                   /\ fileExists' = TRUE
              ELSE UNCHANGED <<fileExists, store>>
           /\ req' = [op |-> "vote_experience", id |-> entry_id]
           /\ resp' = IF voted THEN [kind |-> "voted", id |-> entry_id]
                               ELSE [kind |-> "not_found", id |-> entry_id]
           /\ inflight' = [inflight EXCEPT
                              !.vote = [pc |-> "done", id |-> entry_id],
                              !.running = "none"]
    /\ UNCHANGED <<indexFile, uuid, clock>>

\* lines 223-258: record_experience holds no await and runs in one piece
RecordRun ==
    /\ inflight.record.pc = "start"
    /\ CanRun("record")
    /\ record_experience(inflight.record.args)
    /\ inflight' = [inflight EXCEPT
                       !.record = [pc |-> "done", id |-> uuid,
                                   args |-> @.args]]

\* both responses are out; the tasks are gone
Finish ==
    /\ inflight.vote.pc = "done"
    /\ inflight.record.pc = "done"
    /\ inflight' = Idle
    /\ UNCHANGED <<fileExists, store, indexFile, uuid, clock, req, resp>>

NextConc == Submit \/ VoteRead \/ VoteWrite \/ RecordRun \/ Finish

SpecConc == InitConc /\ [][NextConc]_vars

----------------------------------------------------------------------------
(* Properties *)

Entries == SelectSeq(store, IsEntry)
Last(s) == s[Len(s)]
IsSearch == req.op = "search_experience"
MissingRequired(args) ==
    args.title = None \/ args.problem = None \/ args.solution = None

\* the words of a title, as written
TitleTerms(title) == Range(findall(title, 1, <<>>))

\* results holds the entry with this id, with a score of at least 1
Found(results, entry_id) ==
    \E i \in 1..Len(results) :
        /\ results[i].id = entry_id
        /\ "score" \in DOMAIN results[i]
        /\ results[i].score >= 1

\* a step from a record_experience call to a search_experience call with the
\* default limit whose query is a word of the title just recorded
RoundTripStep ==
    /\ req.op = "record_experience"
    /\ req'.op = "search_experience"
    /\ "limit" \notin DOMAIN req'.args
    /\ req.args.title # None
    /\ req'.args.query \in TitleTerms(req.args.title)

\* the entries before the last one whose text holds the term
OthersWith(term) ==
    {i \in 1..(Len(store) - 1) :
        IsEntry(store[i]) /\ term \in tokenize(join(SearchFields(store[i])))}

\* C1 as stated: record_experience followed immediately by search_experience
\* with a term of the title returns the new record with score >= 1.
C1_RoundTripAlways ==
    [][RoundTripStep =>
        (resp'.kind = "results" /\ Found(resp'.results, Last(store).id))]_vars

\* C1, amended: the new record is returned with score >= 1 when the term has
\* at least two characters and fewer than five other records hold it.
C1_RoundTrip ==
    [][(/\ RoundTripStep
        /\ Len(req'.args.query) >= MinTokenLen
        /\ Cardinality(OthersWith(lower(req'.args.query))) < DefaultLimit)
       => (resp'.kind = "results" /\ Found(resp'.results, Last(store).id))]_vars

C1_Witness ==
    /\ IsSearch
    /\ "limit" \notin DOMAIN req.args
    /\ Len(store) > DefaultLimit
    /\ req.args.query \in TitleTerms(Last(store).title)
    /\ resp.kind = "results"
    /\ Len(resp.results) = DefaultLimit
    /\ Last(resp.results).id = Last(store).id
    /\ Last(resp.results).score = 1

\* C2 as stated: every search_experience call returns a result list and
\* never fails with an error.
C2_SearchNeverFails == IsSearch => resp.kind = "results"

\* C3 as stated: a record_experience call missing a required field is
\* answered with a failure and writes nothing to the log or the index.
C3_NoPartialWrite ==
    [][(req'.op = "record_experience" /\ MissingRequired(req'.args))
       => (/\ resp'.kind # "recorded"
           /\ store' = store
           /\ fileExists' = fileExists
           /\ indexFile' = indexFile)]_vars

\* C4: no step lowers the votes of a record, and a successful vote raises the
\* votes of exactly the records carrying the id, each by 1.
VotesStep ==
    LET old == SelectSeq(store, IsEntry)
        new == SelectSeq(store', IsEntry)
    IN  /\ Len(new) >= Len(old)
        /\ \A i \in 1..Len(old) : new[i].votes >= old[i].votes
        /\ (req'.op = "vote_experience" /\ resp'.kind = "voted") =>
              /\ Len(new) = Len(old)
              /\ \E i \in 1..Len(old) : old[i].id = req'.id
              /\ \A i \in 1..Len(old) :
                    new[i].votes =
                        old[i].votes + (IF old[i].id = req'.id THEN 1 ELSE 0)

C4_VoteMonotonic == [][VotesStep]_vars

C4_Witness ==
    /\ req.op = "vote_experience"
    /\ resp.kind = "voted"
    /\ Cardinality({i \in 1..Len(Entries) : Entries[i].id = req.id}) >= 2
    /\ \A i \in 1..Len(Entries) : Entries[i].id = req.id => Entries[i].votes >= 1
    /\ \E i \in 1..Len(Entries) : Entries[i].id # req.id /\ Entries[i].votes = 0

\* C5: a vote for an id that no stored record carries reports not_found and
\* leaves the log as it was, malformed lines included.
C5_UnknownIdNoMutation ==
    [][(/\ req'.op = "vote_experience"
        /\ req'.id # NoId
        /\ ~\E i \in 1..Len(store) : IsEntry(store[i]) /\ store[i].id = req'.id)
       => (/\ resp'.kind = "not_found"
           /\ store' = store
           /\ fileExists' = fileExists)]_vars

C5_Witness ==
    /\ req.op = "vote_experience"
    /\ resp.kind = "not_found"
    /\ InSeq(BadLine, store)
    /\ Entries # <<>>

\* the last call was a search answered from the index
IndexedResults ==
    /\ IsSearch
    /\ resp.kind = "results"
    /\ \A i \in 1..Len(resp.results) : "score" \in DOMAIN resp.results[i]

\* C6: results from the index are ordered by score, highest first, and among
\* equal scores by votes, highest first.
C6_Ranked ==
    IndexedResults =>
        \A i, j \in 1..Len(resp.results) :
            i < j =>
                \/ resp.results[i].score > resp.results[j].score
                \/ /\ resp.results[i].score = resp.results[j].score
                   /\ resp.results[i].votes >= resp.results[j].votes

C6_Witness ==
    /\ IndexedResults
    /\ Len(resp.results) >= 3
    /\ resp.results[1].score > resp.results[2].score
    /\ resp.results[1].votes < resp.results[2].votes
    /\ resp.results[2].score = resp.results[3].score
    /\ resp.results[2].votes > resp.results[3].votes
    /\ resp.results[2].id > resp.results[3].id

\* no two neighbouring word characters: tokenization leaves no term
NoValidTerm(query) ==
    \A i \in 1..(Len(query) - 1) : ~(IsWordChar(query[i]) /\ IsWordChar(query[i + 1]))

\* C7: a query with no valid term is answered with an empty result list.
C7_NoTermsEmpty ==
    (IsSearch /\ NoValidTerm(req.args.query)) => resp = Results(<<>>)

C7_Witness ==
    /\ IsSearch
    /\ req.args.query = <<"a">>
    /\ fileExists
    /\ ~build_index_raises
    /\ DOMAIN build_index = {}
    /\ \E i \in 1..Len(Entries) :
          Contains(lower(req.args.query), lower(join(LinearFields(Entries[i]))))
    /\ resp = Results(<<>>)

\* C8 as stated: a limit of 0 or less gives the results of the default limit.
C8_NonPositiveLimitIsDefault ==
    (IsSearch /\ "limit" \in DOMAIN req.args /\ req.args.limit <= 0) =>
        \E order \in Orders(tokenize(req.args.query)) :
            resp = search_experience([query |-> req.args.query], order)

\* a record_experience call that carries the required fields
CompleteRecordStep ==
    req'.op = "record_experience" /\ ~MissingRequired(req'.args)

\* the step appends one entry with a fresh id, no votes and the given fields
AppendsOne ==
    LET e == Last(store')
        a == req'.args
    IN  /\ fileExists'
        /\ store' = Append(store, e)
        /\ e.id # NoId
        /\ \A i \in 1..Len(store) : IsEntry(store[i]) => store[i].id # e.id
        /\ e.votes = 0
        /\ e.title = a.title /\ e.problem = a.problem /\ e.solution = a.solution
        /\ e.keywords = a.keywords /\ e.context = a.context

\* C9 as stated: the call succeeds, appends one fresh record with no votes,
\* and answers with the id and the title of that record.
C9_AnswersIdAndTitle ==
    [][CompleteRecordStep =>
        (/\ AppendsOne
         /\ resp'.kind = "recorded"
         /\ resp'.title = req'.args.title
         /\ "id" \in DOMAIN resp'
         /\ resp'.id = Last(store').id)]_vars

\* C9, amended: the call succeeds, appends one fresh record with no votes,
\* and answers with the title of that record only.
C9_RecordSucceeds ==
    [][CompleteRecordStep =>
        (/\ AppendsOne
         /\ resp'.kind = "recorded"
         /\ resp'.title = req'.args.title
         /\ DOMAIN resp' = {"kind", "title"})]_vars

C9_Witness ==
    /\ req.op = "record_experience"
    /\ resp.kind = "recorded"
    /\ Len(Entries) >= 2
    /\ Last(store).votes = 0
    /\ \E i \in 1..(Len(Entries) - 1) : Entries[i].votes > 0

\* C10: with no log on disk a search returns an empty result list, a vote
\* reports not_found, and neither creates the log.
C10_MissingStoreIsEmpty ==
    [][~fileExists =>
        (/\ req'.op = "search_experience" =>
                (resp' = Results(<<>>) /\ ~fileExists')
         /\ (req'.op = "vote_experience" /\ req'.id # NoId) =>
                (resp'.kind = "not_found" /\ ~fileExists' /\ store' = store))]_vars

C10_Witness ==
    /\ ~fileExists
    /\ IsSearch
    /\ req.args.query = <<"a", "b">>
    /\ resp = Results(<<>>)

\* the positions of the lines that parse
WellFormed == {i \in 1..Len(store) : store[i] # BadLine}

\* the text of an entry holds the token
HoldsToken(entry, t) == t \in tokenize(join(SearchFields(entry)))

\* reading yields the well-formed lines, each once, in file order
ReadRecovers ==
    LET r == read_all_experiences
    IN  /\ Len(r) = Cardinality(WellFormed)
        /\ \A k \in 1..Len(r) :
              \E i \in WellFormed :
                  /\ Cardinality({j \in WellFormed : j <= i}) = k
                  /\ r[k] = store[i]

\* the index lists an id under a token exactly when a well-formed line
\* carries the id and holds the token
IndexRecovers ==
    LET index == build_index
        ids == {store[i].id : i \in WellFormed} \ {NoId}
    IN  /\ \A t \in DOMAIN index : \A k \in 1..Len(index[t]) :
              \E i \in WellFormed :
                  store[i].id = index[t][k] /\ HoldsToken(store[i], t)
        /\ \A i \in WellFormed :
              store[i].id # NoId =>
                  \A t \in tokenize(join(SearchFields(store[i]))) :
                      t \in DOMAIN index /\ InSeq(store[i].id, index[t])

\* C11: from a log mixing well-formed and malformed lines, reading and
\* index building recover exactly the well-formed records in file order,
\* and neither search nor vote raises an error.
C11_MalformedSkipped ==
    /\ ReadRecovers
    /\ ~build_index_raises
    /\ IndexRecovers
    /\ req.op \in {"search_experience", "vote_experience"} => resp.kind # "raised"

C11_Witness ==
    /\ Len(store) = 3
    /\ store[1] # BadLine /\ store[1].id # NoId
    /\ store[2] = BadLine
    /\ store[3] # BadLine /\ store[3].id = NoId
    /\ IsSearch
    /\ resp.kind = "results"
    /\ Len(resp.results) = 1
    /\ resp.results[1].id = store[1].id

\* text[i..j] is a maximal run of word characters
IsRun(text, i, j) ==
    /\ i <= j
    /\ \A k \in i..j : IsWordChar(text[k])
    /\ i = 1 \/ ~IsWordChar(text[i - 1])
    /\ j = Len(text) \/ ~IsWordChar(text[j + 1])

\* the lowercased maximal runs of at least two characters
LongRuns(text) ==
    {lower(SubSeq(text, p[1], p[2])) :
        p \in {q \in (1..Len(text)) \X (1..Len(text)) :
                   IsRun(text, q[1], q[2]) /\ q[2] - q[1] + 1 >= MinTokenLen}}

\* tokenize gave the long runs of the text, and of two joined fields the
\* long runs of either field, the same in both orders of concatenation
TokensAsSpecified ==
    /\ (req.op = "tokenize" /\ resp.kind = "tokens") =>
            resp.tokens = LongRuns(req.text)
    /\ (req.op = "tokenize_fields" /\ resp.kind = "tokens") =>
            /\ resp.tokens = LongRuns(req.fields[1]) \cup LongRuns(req.fields[2])
            /\ resp.tokens = tokenize(join(<<req.fields[2], req.fields[1]>>))

ExampleText == <<"A", " ", "a", " ", "A", "A">>

TokenizedExample ==
    req.op = "tokenize" /\ resp.kind = "tokens" /\ req.text = ExampleText

\* C12 as stated: tokenize returns the lowercased maximal word runs of
\* length >= 2, independent of field order, and "A a AA" yields {"a", "aa"}.
C12_ExampleHasShortToken ==
    /\ TokensAsSpecified
    /\ TokenizedExample => resp.tokens = { <<"a">>, <<"a", "a">> }

\* C12, amended: tokenize returns the lowercased maximal word runs of
\* length >= 2, independent of field order, and "A a AA" yields {"aa"}.
C12_Tokens ==
    /\ TokensAsSpecified
    /\ TokenizedExample => resp.tokens = { <<"a", "a">> }

C12_Witness ==
    /\ TokenizedExample
    /\ resp.tokens = { <<"a", "a">> }

\* a step keeps every stored entry, in order, with only its votes possibly
\* changed, and adds at most one entry, at the end, made by record_experience
\* from its arguments under an id no stored entry carries
StoreStep ==
    LET old == SelectSeq(store, IsEntry)
        new == SelectSeq(store', IsEntry)
    IN  /\ Len(new) \in {Len(old), Len(old) + 1}
        /\ \A i \in 1..Len(old) : new[i] = [old[i] EXCEPT !.votes = new[i].votes]
        /\ Len(new) = Len(old) + 1 =>
              LET n == Last(new)
                  a == req'.args
              IN  /\ req'.op = "record_experience"
                  /\ n.id # NoId
                  /\ \A i \in 1..Len(old) : old[i].id # n.id
                  /\ n.timestamp = clock
                  /\ n.title = a.title /\ n.problem = a.problem
                  /\ n.solution = a.solution /\ n.keywords = a.keywords
                  /\ n.context = a.context
        /\ req'.op = "record_experience" => Len(new) = Len(old) + 1

\* C13: the log holds every recorded experience once, in append order, and
\* of a stored record only the votes ever change.
C13_OnlyVotesChange == [][StoreStep]_vars

C13_Witness ==
    /\ req.op = "vote_experience"
    /\ resp.kind = "voted"
    /\ \E i, j \in 1..Len(Entries) :
          /\ i < j
          /\ Entries[i].timestamp < Entries[j].timestamp
          /\ Entries[i].votes = 0
          /\ Entries[j].votes > 0
          /\ Entries[j].id = req.id

\* no two stored entries share an id
UniqueIds ==
    \A i, j \in 1..Len(Entries) :
        (i # j /\ Entries[i].id # NoId) => Entries[i].id # Entries[j].id

\* the number of distinct query terms among the tokens of the entry
MatchCount(entry, query) ==
    Cardinality({t \in tokenize(query) : HoldsToken(entry, t)})

ScoresAreMatchCounts ==
    \A i \in 1..Len(resp.results) :
        LET r == resp.results[i]
        IN  /\ r.score = MatchCount(r, req.args.query)
            /\ r.score >= 1
            /\ r.score <= Cardinality(tokenize(req.args.query))

\* C14: on the indexed path the score of a returned record is the number of
\* distinct query terms among the tokens of its text, between 1 and the
\* number of query terms; ids are unique, as the store keeps them.
C14_ScoreIsMatchCount == (IndexedResults /\ UniqueIds) => ScoresAreMatchCounts

C14_Witness ==
    /\ IndexedResults
    /\ UniqueIds
    /\ Cardinality(tokenize(req.args.query)) = 2
    /\ Len(resp.results) >= 2
    /\ resp.results[1].score = 2
    /\ resp.results[2].score = 1

\* the limit of the last search
LimitUsed == IF "limit" \in DOMAIN req.args THEN req.args.limit ELSE DefaultLimit

\* the stored entries with an id that hold at least one query term
Matching ==
    {i \in 1..Len(Entries) :
        Entries[i].id # NoId /\ MatchCount(Entries[i], req.args.query) > 0}

\* the last search was answered from a non-empty index, with a positive limit
IndexedSearch ==
    /\ IsSearch
    /\ resp.kind = "results"
    /\ fileExists
    /\ DOMAIN build_index # {}
    /\ LimitUsed > 0

\* entry e ranks strictly above result r by (score, votes)
RanksAbove(e, r) ==
    LET s == MatchCount(e, req.args.query)
    IN  s > r.score \/ (s = r.score /\ e.votes > r.votes)

TopMatches ==
    LET results == resp.results
        returned == {results[k].id : k \in 1..Len(results)}
    IN  /\ Len(results) = Min({LimitUsed, Cardinality(Matching)})
        /\ Cardinality(returned) = Len(results)
        /\ \A k \in 1..Len(results) :
              \E i \in Matching : results[k] = WithScore(Entries[i], results[k].score)
        /\ \A i \in Matching :
              Entries[i].id \notin returned =>
                  \A k \in 1..Len(results) : ~RanksAbove(Entries[i], results[k])

\* C15: for a positive limit L the indexed path returns min(L, number of
\* matching records) results, each stored record at most once, and no
\* omitted matching record outranks a returned one.
C15_TopByRank == (IndexedSearch /\ UniqueIds) => TopMatches

C15_Witness ==
    /\ IndexedSearch
    /\ UniqueIds
    /\ LimitUsed = 2
    /\ Cardinality(Matching) = 3
    /\ Len(resp.results) = 2
    /\ \E i \in Matching :
          /\ \A k \in 1..2 : resp.results[k].id # Entries[i].id
          /\ Entries[i].votes < resp.results[2].votes

NoRepeat(s) == \A i, j \in 1..Len(s) : s[i] = s[j] => i = j

\* C16: from an empty store and an empty persisted index, the persisted
\* index and the index built from the store list the same ids under the
\* same terms, each id once.
C16_PersistedIndexIsBuilt ==
    LET built == build_index
    IN  /\ DOMAIN indexFile = DOMAIN built
        /\ \A t \in DOMAIN built :
              /\ Range(indexFile[t]) = Range(built[t])
              /\ NoRepeat(indexFile[t])
              /\ NoRepeat(built[t])

C16_Witness ==
    /\ req.op = "vote_experience"
    /\ resp.kind = "voted"
    /\ Cardinality(DOMAIN indexFile) >= 2
    /\ \E t \in DOMAIN indexFile : Len(indexFile[t]) >= 2
    /\ C16_PersistedIndexIsBuilt

\* the persisted index lists this id under no term
Unlisted(entry_id) ==
    \A t \in DOMAIN indexFile : ~InSeq(entry_id, indexFile[t])

\* C17: a search is answered from the log as it is now, whatever the
\* persisted index holds: when the limit does not cut the list, the results
\* are exactly the stored records holding a query term, each with its
\* number of matched terms, so a record added out of band is found.
C17_FreshIndex ==
    (IndexedSearch /\ UniqueIds /\ Cardinality(Matching) <= LimitUsed) =>
        {resp.results[k] : k \in 1..Len(resp.results)} =
            {WithScore(Entries[i], MatchCount(Entries[i], req.args.query)) :
                i \in Matching}

C17_Witness ==
    /\ IndexedSearch
    /\ UniqueIds
    /\ indexFile # <<>>
    /\ Len(resp.results) >= 2
    /\ \E k \in 1..Len(resp.results) : Unlisted(resp.results[k].id)
    /\ \E k \in 1..Len(resp.results) : ~Unlisted(resp.results[k].id)

\* no stored entry has both an id and a token: the built index is empty
NothingIndexable ==
    \A i \in 1..Len(Entries) :
        Entries[i].id = NoId \/ LongRuns(join(SearchFields(Entries[i]))) = {}

\* the case in which the linear scan is to answer
FallbackCase == fileExists /\ ~NoValidTerm(req.args.query) /\ NothingIndexable

\* the stored entries whose title, problem, solution and keywords, joined and
\* lowercased, contain the lowercased query
ScanMatches ==
    {i \in 1..Len(Entries) :
        Contains(lower(req.args.query),
                 lower(Entries[i].title \o <<" ">> \o Entries[i].problem \o <<" ">>
                       \o Entries[i].solution \o <<" ">> \o Entries[i].keywords))}

ScanResults ==
    LET results == resp.results
        levels == {Entries[i].votes : i \in 1..Len(Entries)} \cup {0}
    IN  /\ \A k \in 1..Len(results) : "score" \notin DOMAIN results[k]
        /\ \E f \in [1..Len(results) -> ScanMatches] :
              /\ \A k, l \in 1..Len(results) : f[k] = f[l] => k = l
              /\ \A k \in 1..Len(results) : results[k] = Entries[f[k]]
        /\ \A k, l \in 1..Len(results) :
              k < l => results[k].votes >= results[l].votes
        /\ \A v \in levels :
              Cardinality({k \in 1..Len(results) : results[k].votes >= v}) =
                  Min({LimitUsed,
                       Cardinality({i \in ScanMatches : Entries[i].votes >= v})})

\* C18: with a valid query term and nothing indexable in the log, the
\* search returns the entries containing the raw query, without a score,
\* by votes descending, cut to the (positive) limit; in every other case
\* the results carry scores.
C18_LinearFallback ==
    (IsSearch /\ resp.kind = "results" /\ LimitUsed > 0) =>
        IF FallbackCase
        THEN ScanResults
        ELSE \A k \in 1..Len(resp.results) : "score" \in DOMAIN resp.results[k]

C18_Witness ==
    /\ IsSearch
    /\ resp.kind = "results"
    /\ FallbackCase
    /\ LimitUsed = 1
    /\ Cardinality(ScanMatches) >= 2
    /\ Len(resp.results) = 1
    /\ resp.results[1].votes = 1
    /\ Entries[1].votes = 0
    /\ 1 \in ScanMatches

\* a search_experience call leaves the log and the persisted index alone
SearchReadsOnly ==
    req'.op = "search_experience" =>
        /\ fileExists' = fileExists
        /\ store' = store
        /\ indexFile' = indexFile

\* what build_index returns on the log as the step leaves it
BuiltAfter ==
    IndexOf(Indexed(IF fileExists' THEN SelectSeq(store', IsEntry) ELSE <<>>))

\* a vote_experience call leaves the persisted index alone, and build_index
\* gives the same answer (the same index or the same failure) on the log
\* before and after
VoteKeepsIndex ==
    req'.op = "vote_experience" =>
        /\ indexFile' = indexFile
        /\ build_index_raises' = build_index_raises
        /\ ~build_index_raises => BuiltAfter = build_index

\* C20: search_experience changes neither the log nor the persisted index;
\* vote_experience, successful or not, changes neither the persisted index
\* nor the index that build_index derives from the log.
C20_Frame == [][SearchReadsOnly /\ VoteKeepsIndex]_vars

C20_Witness ==
    /\ req.op = "vote_experience"
    /\ resp.kind = "voted"
    /\ DOMAIN indexFile # {}
    /\ ~build_index_raises
    /\ \E t \in DOMAIN build_index : InSeq(req.id, build_index[t])

\* both requests of a pair have been answered
BothDone == inflight.vote.pc = "done" /\ inflight.record.pc = "done"

\* the log holds every entry it held when the pair arrived, the voted ones
\* with one more vote, followed by the recorded entry
NothingLost ==
    LET before == inflight.before
        n == Len(before)
    IN  /\ Len(Entries) = n + 1
        /\ \A i \in 1..n :
              Entries[i] = IF before[i].id = inflight.vote.id
                           THEN [before[i] EXCEPT !.votes = @ + 1]
                           ELSE before[i]
        /\ Entries[n + 1].id = inflight.record.id
        /\ Entries[n + 1].title = inflight.record.args.title
        /\ Entries[n + 1].votes = 0

\* C19: when a vote_experience and a record_experience request are in
\* flight together, then however the event loop orders them the log holds
\* the recorded entry and the raised vote once both are answered.
C19_NoLostRecord == BothDone => NothingLost

\* the record ran while the vote was held, and the vote answered last
C19_Witness ==
    /\ BothDone
    /\ req.op = "vote_experience"
    /\ resp.kind = "voted"
    /\ NothingLost
    /\ inflight.before[1].id = NoId

====
